---- MODULE Spec2Model ----
(***************************************************************************)
(* IMDB 5000 Movie Analytics dashboard (src/app.py).                       *)
(*                                                                         *)
(* The Streamlit script is re-executed from top to bottom on every widget  *)
(* change.  One script run loads the table through st.cache_data, builds   *)
(* the sidebar, filters the table, computes the metrics, builds one chart  *)
(* and offers the CSV export.  Each action below is one user interaction   *)
(* together with the script run it triggers.                               *)
(*                                                                         *)
(* Text (movie titles, genre strings, search queries) is a sequence of     *)
(* one-character strings, so that splitting on '|', stripping, joining,    *)
(* case folding and regular-expression search are computed, not assumed.   *)
(***************************************************************************)
EXTENDS Integers, Sequences, FiniteSets

(***************************************************************************)
(* Bounds of the model.                                                    *)
(***************************************************************************)
\* Largest number of rows in the source file.
MaxRows == 3

\* The parse counter saturates here (it only ever exceeds 1 if the cache is
\* bypassed).
MaxParses == 2

(***************************************************************************)
(* Text helpers.                                                           *)
(***************************************************************************)
\* The letters that occur in upper case, each with its lower-case form.
LowerOf ==
    [c \in {"A", "C", "I", "L", "M", "N", "R", "S", "U", "W"} |->
        CASE c = "A" -> "a" [] c = "C" -> "c" [] c = "I" -> "i" [] c = "L" -> "l"
          [] c = "M" -> "m" [] c = "N" -> "n" [] c = "R" -> "r" [] c = "S" -> "s"
          [] c = "U" -> "u" [] c = "W" -> "w"]

\* Case folding of one character, as re.IGNORECASE compares characters.
lower(c) == IF c \in DOMAIN LowerOf THEN LowerOf[c] ELSE c

\* Index of the first occurrence of character c in s at or after position
\* from, or Len(s) + 1 when there is none.
FindChar(s, c, from) ==
    IF \E i \in from..Len(s) : s[i] = c
    THEN CHOOSE i \in from..Len(s) : s[i] = c /\ \A j \in from..(i - 1) : s[j] # c
    ELSE Len(s) + 1

\* str.split(sep) for a one-character separator: "a||b" gives <<"a","","b">>,
\* the empty string gives <<"">>.
RECURSIVE split(_, _)
split(s, sep) ==
    LET cut == FindChar(s, sep, 1)
    IN  IF cut > Len(s)
        THEN <<s>>
        ELSE <<SubSeq(s, 1, cut - 1)>> \o split(SubSeq(s, cut + 1, Len(s)), sep)

\* str.strip(): leading and trailing blanks removed.
RECURSIVE strip(_)
strip(s) ==
    IF s = <<>> THEN s
    ELSE IF Head(s) = " " THEN strip(Tail(s))
    ELSE IF s[Len(s)] = " " THEN strip(SubSeq(s, 1, Len(s) - 1))
    ELSE s

\* sep.join(parts)
RECURSIVE join(_, _)
join(parts, sep) ==
    IF parts = <<>> THEN <<>>
    ELSE IF Len(parts) = 1 THEN parts[1]
    ELSE parts[1] \o sep \o join(Tail(parts), sep)

\* A list holding the elements of a finite set, each once (the order in
\* which the multiselect returns the chosen options).
RECURSIVE SetToSeq(_)
SetToSeq(S) ==
    IF S = {} THEN <<>>
    ELSE LET x == CHOOSE x \in S : TRUE
         IN  <<x>> \o SetToSeq(S \ {x})

\* The elements of a list, as a set.
Range(s) == {s[i] : i \in 1..Len(s)}

(***************************************************************************)
(* Regular expressions, as far as the patterns of this model go: literal   *)
(* characters, '|' for alternation and '(' opening a group.  No pattern    *)
(* here holds ')', so a '(' is never closed and re.compile raises.         *)
(***************************************************************************)
re_compiles(pat) == \A i \in 1..Len(pat) : pat[i] # "("

\* Variant of FoundAt: upper and lower case differ.
FoundAt_caseSensitive(s, lit, i) == \A k \in 1..Len(lit) : s[i + k - 1] = lit[k]

\* s holds lit at some position, characters compared after case folding.
FoundAt(s, lit, i) == \A k \in 1..Len(lit) : lower(s[i + k - 1]) = lower(lit[k])

re_search_ignorecase(pat, s) ==
    \E alt \in Range(split(pat, "|")) :
        \E i \in 1..(Len(s) - Len(alt) + 1) : FoundAt(s, alt, i)

\* Series.str.contains(pat, case=False, na=False): the pattern is compiled
\* once, before any row is looked at; then one boolean per row.
str_contains(column, pat) ==
    IF re_compiles(pat)
    THEN [ok |-> TRUE, mask |-> [i \in 1..Len(column) |-> re_search_ignorecase(pat, column[i])]]
    ELSE [ok |-> FALSE, mask |-> <<>>]


(***************************************************************************)
(* The source file data/movie_metadata.csv.  A cell of the file is either  *)
(* present with a value or missing (NaN after read_csv).                   *)
(***************************************************************************)
Cell(v) == [na |-> FALSE, v |-> v]
NaText == [na |-> TRUE, v |-> <<>>]
NaName == [na |-> TRUE, v |-> ""]
NaNumber == [na |-> TRUE, v |-> 0]

RawRow(title, genres, a1, a2, a3, year, budget, gross, score) ==
    [movie_title |-> title, genres |-> genres,
     actor_1_name |-> a1, actor_2_name |-> a2, actor_3_name |-> a3,
     title_year |-> year, budget |-> budget, gross |-> gross,
     imdb_score |-> score]

\* Rows a file is made of.  imdb_score is in tenths of a point.
MovieRows ==
    { RawRow(Cell(<<"R", "a", "n">>), Cell(<<"W", "a", "r">>),
             Cell("Ono"), Cell("Kim"), NaName,
             Cell(1999), Cell(1000), Cell(1500), Cell(80)),
      RawRow(Cell(<<"R", "A", "N">>), Cell(<<"M", "u", "s", "i", "c">>),
             Cell("Kim"), NaName, NaName,
             NaNumber, Cell(500), Cell(1500), NaNumber),
      RawRow(Cell(<<"U", "p">>), Cell(<<"W", "a", "r", "|", " ", "M", "U", "S", "I", "C", "A", "L">>),
             Cell("Lee"), NaName, Cell("Ono"),
             Cell(2005), NaNumber, Cell(1500), Cell(60)) }

\* Rows with many genres each, for the top-10 cut of the box chart; the
\* last one has no year and a genre that is no valid regular expression.
ManyGenreRows ==
    { RawRow(Cell(<<"U", "p">>), Cell(<<"a", "|", "b", "|", "c", "|", "d", "|", "e", "|", "f">>),
             NaName, NaName, NaName,
             Cell(1999), Cell(1000), Cell(1500), Cell(80)),
      RawRow(Cell(<<"U", "p">>), Cell(<<"a", "|", "b", "|", "g", "|", "h", "|", "i", "|", "j", "|", "k">>),
             NaName, NaName, NaName,
             Cell(1999), Cell(2000), Cell(1500), Cell(60)),
      RawRow(NaText, Cell(<<"a", "|", "(">>),
             NaName, NaName, NaName,
             NaNumber, NaNumber, NaNumber, NaNumber) }

\* The non-empty lists of at most n elements of S.
RECURSIVE ListsUpTo(_, _)
ListsUpTo(S, n) ==
    IF n = 0 THEN {<<>>}
    ELSE LET shorter == ListsUpTo(S, n - 1)
         IN  shorter \cup {Append(l, x) : l \in {m \in shorter : Len(m) = n - 1}, x \in S}

Files ==
    {[exists |-> TRUE, parsable |-> TRUE, rows |-> rows] :
        rows \in (ListsUpTo(MovieRows, MaxRows) \cup ListsUpTo(ManyGenreRows, MaxRows)) \ {<<>>}}
    \cup {[exists |-> FALSE, parsable |-> FALSE, rows |-> <<>>],
          [exists |-> TRUE, parsable |-> FALSE, rows |-> <<>>],
          [exists |-> TRUE, parsable |-> TRUE, rows |-> <<>>]}

(***************************************************************************)
(* load_data                                                               *)
(***************************************************************************)
Unknown == <<"U", "n", "k", "n", "o", "w", "n">>

fillna(cell, default) == IF cell.na THEN default ELSE cell.v

\* Lines 45-52 on the row that read_csv gave index i.  movie_title is not
\* filled: it stays a cell that may be missing.
FillRow(raw, i) ==
    [index |-> i,
     movie_title |-> raw.movie_title,
     genres |-> fillna(raw.genres, Unknown),
     actor_1_name |-> fillna(raw.actor_1_name, "Unknown"),
     actor_2_name |-> fillna(raw.actor_2_name, "Unknown"),
     actor_3_name |-> fillna(raw.actor_3_name, "Unknown"),
     title_year |-> fillna(raw.title_year, 0),
     budget |-> fillna(raw.budget, 0),
     gross |-> fillna(raw.gross, 0),
     imdb_score |-> fillna(raw.imdb_score, 0)]

\* The body of load_data: the table, whether read_csv was called, and the
\* message given to st.error ("" when none).
load_data(f) ==
    IF ~f.exists
    THEN [df |-> <<>>, parsed |-> FALSE, error |-> "file not found"]
    ELSE IF ~f.parsable
    THEN [df |-> <<>>, parsed |-> TRUE, error |-> "load error"]
    ELSE [df |-> [i \in 1..Len(f.rows) |-> FillRow(f.rows[i], i - 1)],
          parsed |-> TRUE, error |-> ""]

EmptyCache == [filled |-> FALSE, value |-> <<>>]

\* Variant of cache_data: the body runs on every call.
cache_data_uncached(c, f) ==
    LET r == load_data(f)
    IN  [df |-> r.df, parsed |-> r.parsed, error |-> r.error,
         cache |-> [filled |-> TRUE, value |-> r.df]]

\* @st.cache_data around load_data: the body runs only when the cache holds
\* no value for it yet; the value returned is stored.
cache_data(c, f) ==
    IF c.filled
    THEN [df |-> c.value, parsed |-> FALSE, error |-> "", cache |-> c]
    ELSE LET r == load_data(f)
         IN  [df |-> r.df, parsed |-> r.parsed, error |-> r.error,
              cache |-> [filled |-> TRUE, value |-> r.df]]


(***************************************************************************)
(* Sidebar                                                                 *)
(***************************************************************************)
All == <<"A", "l", "l">>

\* Variant of KnownYears: the rows without year are not left out.
KnownYears_withZero(t) == {t[i].title_year : i \in 1..Len(t)}

\* df[df['title_year'] > 0]['title_year']
KnownYears(t) == {t[i].title_year : i \in {j \in 1..Len(t) : t[j].title_year > 0}}

\* int(Series.min()) and int(Series.max()) of lines 77-78.  Over no value
\* min() is NaN and int() raises: the caller asks KnownYears(t) # {} first.
MinYear(t) == CHOOSE y \in KnownYears(t) : \A z \in KnownYears(t) : y <= z
MaxYear(t) == CHOOSE y \in KnownYears(t) : \A z \in KnownYears(t) : y >= z

\* Line 86: the options of the genre multiselect (a set: their order plays
\* no part in what follows).
GenreOptions(t) ==
    {All} \cup
    {strip(g) : g \in {h \in UNION {Range(split(t[i].genres, "|")) : i \in 1..Len(t)} : h # <<>>}}

\* Line 93: the options of the actor multiselect.
ActorOptions(t) ==
    {"All"} \cup
    UNION {{t[i].actor_1_name, t[i].actor_2_name, t[i].actor_3_name} : i \in 1..Len(t)}

PlotTypes == {"scatter", "box", "trend", "histogram"}

(***************************************************************************)
(* Filter block, lines 109-133                                             *)
(***************************************************************************)
\* Variant of between: the lower end is not tested.
between_upperOnly(x, left, right) == x <= right

\* Series.between(left, right), both ends inclusive.
between(x, left, right) == left <= x /\ x <= right

\* Variant of BoolIndex: row i is kept by the mask entry of row i + 1, the
\* last row never.
RECURSIVE BoolIndex_offByOne(_, _)
BoolIndex_offByOne(t, mask) ==
    IF Len(t) <= 1 THEN <<>>
    ELSE LET rest == BoolIndex_offByOne(SubSeq(t, 1, Len(t) - 1), SubSeq(mask, 1, Len(t) - 1))
         IN  IF mask[Len(t)] THEN Append(rest, t[Len(t) - 1]) ELSE rest

\* frame[mask]: the rows whose mask entry is true, in their order.
RECURSIVE BoolIndex(_, _)
BoolIndex(t, mask) ==
    IF t = <<>> THEN <<>>
    ELSE LET rest == BoolIndex(SubSeq(t, 1, Len(t) - 1), SubSeq(mask, 1, Len(t) - 1))
         IN  IF mask[Len(t)] THEN Append(rest, t[Len(t)]) ELSE rest

\* Line 112.
YearPredicate(t, year_range_) ==
    BoolIndex(t, [i \in 1..Len(t) |-> between(t[i].title_year, year_range_[1], year_range_[2])])

\* Line 114: the genre predicate is evaluated at all.
GenreActive(selected) == All \notin selected

\* Lines 115-117.
GenrePredicate(t, selected) ==
    LET m == str_contains([i \in 1..Len(t) |-> t[i].genres], join(SetToSeq(selected), <<"|">>))
    IN  [ok |-> m.ok, rows |-> IF m.ok THEN BoolIndex(t, m.mask) ELSE <<>>]

\* Line 119.
ActorActive(selected) == "All" \notin selected

\* Series.isin(values)
isin(x, values) == x \in values

\* Variant of ActorPredicate: only the first actor is looked at.
ActorPredicate_firstActorOnly(t, selected) ==
    BoolIndex(t, [i \in 1..Len(t) |-> isin(t[i].actor_1_name, selected)])

\* Lines 120-124.
ActorPredicate(t, selected) ==
    BoolIndex(t, [i \in 1..Len(t) |->
        \/ isin(t[i].actor_1_name, selected)
        \/ isin(t[i].actor_2_name, selected)
        \/ isin(t[i].actor_3_name, selected)])

\* Line 126: a non-empty string is truthy.
TitleActive(query) == query # <<>>

\* Lines 127-129; na=False makes a missing title a non-match.
TitlePredicate(t, query) ==
    LET m == str_contains([i \in 1..Len(t) |-> t[i].movie_title.v], query)
    IN  [ok |-> m.ok,
         rows |-> IF m.ok
                  THEN BoolIndex(t, [i \in 1..Len(t) |-> ~t[i].movie_title.na /\ m.mask[i]])
                  ELSE <<>>]

\* Variant of Fallback: the rows the predicates had left so far stay.
Fallback_partial(t, partial) == partial

\* Line 133: what the except branch leaves in filtered_data.
Fallback(t, partial) == t

\* The whole try/except over table t.  after_year, after_genre and
\* after_actor are the values of filtered_data after lines 112, 117 and 124
\* (<<>> for a line that was not reached); failed_at names the predicate
\* that raised, "" when none did.
FilterBlock(t, year_range_, genres_, actors_, query) ==
    LET y == YearPredicate(t, year_range_)
        g == IF GenreActive(genres_) THEN GenrePredicate(y, genres_) ELSE [ok |-> TRUE, rows |-> y]
        a == IF ActorActive(actors_) THEN ActorPredicate(g.rows, actors_) ELSE g.rows
        q == IF TitleActive(query) THEN TitlePredicate(a, query) ELSE [ok |-> TRUE, rows |-> a]
    IN  IF ~g.ok
        THEN [after_year |-> y, after_genre |-> <<>>, after_actor |-> <<>>,
              failed_at |-> "genre", filtered_data |-> Fallback(t, y)]
        ELSE IF ~q.ok
        THEN [after_year |-> y, after_genre |-> g.rows, after_actor |-> a,
              failed_at |-> "title", filtered_data |-> Fallback(t, a)]
        ELSE [after_year |-> y, after_genre |-> g.rows, after_actor |-> a,
              failed_at |-> "", filtered_data |-> q.rows]


(***************************************************************************)
(* Numbers.  Means and ratios are exact fractions num/den, den > 0, in     *)
(* lowest terms; den = 0 stands for the inf or NaN of a division by zero.  *)
(***************************************************************************)
Abs(n) == IF n < 0 THEN -n ELSE n

RECURSIVE GCD(_, _)
GCD(a, b) == IF b = 0 THEN a ELSE GCD(b, a % b)

Frac(n, d) ==
    IF d = 0 THEN [num |-> n, den |-> 0]
    ELSE LET g == GCD(Abs(n), Abs(d))
             sgn == IF d < 0 THEN -1 ELSE 1
         IN  [num |-> sgn * (n \div g), den |-> sgn * (d \div g)]

FracLeq(a, b) == a.num * b.den <= b.num * a.den
FracAdd(a, b) == Frac(a.num * b.den + b.num * a.den, a.den * b.den)
FracTimes(a, k) == Frac(a.num * k, a.den)
FracHalf(a) == Frac(a.num, 2 * a.den)

RECURSIVE Sum(_)
Sum(xs) == IF xs = <<>> THEN 0 ELSE Head(xs) + Sum(Tail(xs))

\* Series.mean() of a non-empty column.
mean(xs) == Frac(Sum(xs), Len(xs))

\* The column in ascending order.
RECURSIVE SortFracs(_)
SortFracs(xs) ==
    IF xs = <<>> THEN <<>>
    ELSE LET i == CHOOSE i \in 1..Len(xs) : \A j \in 1..Len(xs) : FracLeq(xs[i], xs[j])
             rest == [k \in 1..(Len(xs) - 1) |-> IF k < i THEN xs[k] ELSE xs[k + 1]]
         IN  <<xs[i]>> \o SortFracs(rest)

\* Series.median() of a non-empty column: the middle value, or the mean of
\* the two middle values.
median(xs) ==
    LET sorted == SortFracs(xs)
        n == Len(xs)
    IN  IF n % 2 = 1
        THEN sorted[(n + 1) \div 2]
        ELSE FracHalf(FracAdd(sorted[n \div 2], sorted[n \div 2 + 1]))

\* What st.metric shows: a number, or "Нет данных".
Number(x) == [nodata |-> FALSE, value |-> x]
NoData == [nodata |-> TRUE, value |-> [num |-> 0, den |-> 1]]
notna(x) == ~(x.den = 0 /\ x.num = 0)

(***************************************************************************)
(* Metrics, lines 135-152                                                  *)
(***************************************************************************)
\* Lines 140-141.
AvgScore(fd) ==
    IF fd = <<>> THEN NoData
    ELSE Number(mean([i \in 1..Len(fd) |-> fd[i].imdb_score]))

\* Smallest budget a row may have to enter the ROI.
MinBudget == 1000

\* Variant of RoiEligible: the budget is not tested.
RoiEligible_grossOnly(row) == row.gross > 0

\* The row test of line 145.
RoiEligible(row) == row.budget >= MinBudget /\ row.gross > 0

\* Line 145.
RoiData(fd) == BoolIndex(fd, [i \in 1..Len(fd) |-> RoiEligible(fd[i])])

\* (gross - budget) / budget of one row.
RoiRatio(row) == Frac(row.gross - row.budget, row.budget)

\* Lines 146-150.
RoiMetric(roi_data_) ==
    IF roi_data_ = <<>> THEN NoData
    ELSE LET roi == FracTimes(median([i \in 1..Len(roi_data_) |-> RoiRatio(roi_data_[i])]), 100)
         IN  IF notna(roi) THEN Number(roi) ELSE NoData

(***************************************************************************)
(* Charts, lines 162-259                                                   *)
(***************************************************************************)
\* Lines 187-189: one row per genre token, in row order and, within a row,
\* in token order; the row keeps its index and its gross.
RECURSIVE Explode(_)
Explode(fd) ==
    IF fd = <<>> THEN <<>>
    ELSE LET row == Head(fd)
             tokens == split(row.genres, "|")
         IN  [k \in 1..Len(tokens) |->
                 [index |-> row.index, gross |-> row.gross, genres |-> tokens[k]]]
             \o Explode(Tail(fd))

\* value_counts(): how often each token occurs.
value_counts(exploded) ==
    [g \in {exploded[i].genres : i \in 1..Len(exploded)} |->
        Cardinality({i \in 1..Len(exploded) : exploded[i].genres = g})]

\* Number of genres the box chart keeps.
TopN == 10

\* The subsets of S with exactly k elements.
RECURSIVE SubsetsOfSize(_, _)
SubsetsOfSize(S, k) ==
    IF k = 0 THEN {{}}
    ELSE IF Cardinality(S) < k THEN {}
    ELSE LET x == CHOOSE x \in S : TRUE
         IN  SubsetsOfSize(S \ {x}, k) \cup {T \cup {x} : T \in SubsetsOfSize(S \ {x}, k - 1)}

\* Variant of head: nothing is cut off.
head_all(counts, n) == {DOMAIN counts}

\* head(n).index of the counts in descending order.  Which of several
\* equally frequent tokens come first is left to the sort, so every set
\* of the n most frequent tokens is a possible outcome: the tokens more
\* frequent than the n-th, and as many of those as frequent as the n-th as
\* the n places leave.
head(counts, n) ==
    IF Cardinality(DOMAIN counts) <= n
    THEN {DOMAIN counts}
    ELSE LET atLeast(c) == {g \in DOMAIN counts : counts[g] >= c}
             nth == CHOOSE c \in {counts[g] : g \in DOMAIN counts} :
                        /\ Cardinality(atLeast(c)) >= n
                        /\ Cardinality(atLeast(c + 1)) < n
             sure == atLeast(nth + 1)
             tied == {g \in DOMAIN counts : counts[g] = nth}
         IN  {sure \cup T : T \in SubsetsOfSize(tied, n - Cardinality(sure))}

\* Line 191.
KeepTop(exploded, top) ==
    BoolIndex(exploded, [i \in 1..Len(exploded) |-> isin(exploded[i].genres, top)])

\* The ascending list of the elements of a set of integers.
RECURSIVE SortInts(_)
SortInts(S) ==
    IF S = {} THEN <<>>
    ELSE LET m == CHOOSE m \in S : \A z \in S : m <= z
         IN  <<m>> \o SortInts(S \ {m})

\* Line 210: one row per title_year, ascending, with the means of budget
\* and gross over the rows of that year.
GroupByYearMean(fd) ==
    LET years == SortInts({fd[i].title_year : i \in 1..Len(fd)})
        group(y) == BoolIndex(fd, [i \in 1..Len(fd) |-> fd[i].title_year = y])
    IN  [k \in 1..Len(years) |->
            [title_year |-> years[k],
             budget |-> mean([i \in 1..Len(group(years[k])) |-> group(years[k])[i].budget]),
             gross |-> mean([i \in 1..Len(group(years[k])) |-> group(years[k])[i].gross])]]

\* Variant of KnownYear: the group of the rows without year stays.
KnownYear_any(y) == TRUE

\* The year test of line 211.
KnownYear(y) == y > 0

\* Lines 210-211.
YearlyData(fd) ==
    LET grouped == GroupByYearMean(fd)
    IN  BoolIndex(grouped, [k \in 1..Len(grouped) |-> KnownYear(grouped[k].title_year)])

(***************************************************************************)
(* Export, lines 262-272                                                   *)
(***************************************************************************)
\* to_csv(index=False): the rows in order, every column but the index.
to_csv(fd) ==
    [i \in 1..Len(fd) |->
        [movie_title |-> fd[i].movie_title, genres |-> fd[i].genres,
         actor_1_name |-> fd[i].actor_1_name, actor_2_name |-> fd[i].actor_2_name,
         actor_3_name |-> fd[i].actor_3_name, title_year |-> fd[i].title_year,
         budget |-> fd[i].budget, gross |-> fd[i].gross, imdb_score |-> fd[i].imdb_score]]


(***************************************************************************)
(* State                                                                   *)
(***************************************************************************)
VARIABLES
    file,             \* data/movie_metadata.csv, fixed for the process
    cache,            \* what st.cache_data holds for load_data
    parses,           \* how often pd.read_csv has been called
    df,               \* the table of line 58
    status,           \* "init", "rendered", "stopped" (st.stop) or "crashed"
    load_error,       \* the st.error message of load_data, "" when none
    year_range,       \* the widgets of the sidebar
    selected_genres,
    selected_actors,
    search_query,
    plot_type,
    filtered_data,    \* result of the filter block
    after_year,       \* filtered_data after lines 112, 117 and 124
    after_genre,
    after_actor,
    failed_at,        \* predicate whose failure st.error reported, "" when none
    count,            \* the three metrics
    avg_score,
    roi_data,
    roi,
    chart,            \* the chart handed to st.plotly_chart, "" when none
    genre_data,       \* box chart
    top_genres,
    yearly_data,      \* trend chart
    csv               \* the export offered for download

vars == <<file, cache, parses, df, status, load_error,
          year_range, selected_genres, selected_actors, search_query, plot_type,
          filtered_data, after_year, after_genre, after_actor, failed_at,
          count, avg_score, roi_data, roi, chart, genre_data, top_genres,
          yearly_data, csv>>

widgets == <<year_range, selected_genres, selected_actors, search_query, plot_type>>

\* What the user does with the widgets in this model.
YearInputs == {1999, 2005}
GenreInputs == {All, <<"M", "u", "s", "i", "c">>, <<"W", "a", "r">>, <<"(">>}
ActorInputs == {"All", "Ono", "Kim"}
SearchInputs == {<<>>, <<"r", "a", "n">>, <<"(">>}

Init ==
    /\ file \in Files
    /\ cache = EmptyCache
    /\ parses = 0
    /\ df = <<>>
    /\ status = "init"
    /\ load_error = ""
    /\ year_range = <<1900, 2020>>
    /\ selected_genres = {All}
    /\ selected_actors = {"All"}
    /\ search_query = <<>>
    /\ plot_type = "scatter"
    /\ filtered_data = <<>>
    /\ after_year = <<>>
    /\ after_genre = <<>>
    /\ after_actor = <<>>
    /\ failed_at = ""
    /\ count = 0
    /\ avg_score = NoData
    /\ roi_data = <<>>
    /\ roi = NoData
    /\ chart = ""
    /\ genre_data = <<>>
    /\ top_genres = {}
    /\ yearly_data = <<>>
    /\ csv = <<>>

\* The run ends before the filter block: st.stop() of line 62, or the
\* exception of line 77 when no row has a year.
EndsEarly(how) ==
    /\ status' = how
    /\ UNCHANGED widgets
    /\ filtered_data' = <<>>
    /\ after_year' = <<>>
    /\ after_genre' = <<>>
    /\ after_actor' = <<>>
    /\ failed_at' = ""
    /\ count' = 0
    /\ avg_score' = NoData
    /\ roi_data' = <<>>
    /\ roi' = NoData
    /\ chart' = ""
    /\ genre_data' = <<>>
    /\ top_genres' = {}
    /\ yearly_data' = <<>>
    /\ csv' = <<>>

\* Lines 109-272 over table t with the widget values given.
Render(t, yr, genres_, actors_, query, plot) ==
    /\ status' = "rendered"
    /\ year_range' = yr
    /\ selected_genres' = genres_
    /\ selected_actors' = actors_
    /\ search_query' = query
    /\ plot_type' = plot
    /\ \E f \in {FilterBlock(t, yr, genres_, actors_, query)} :
        /\ filtered_data' = f.filtered_data
        /\ after_year' = f.after_year
        /\ after_genre' = f.after_genre
        /\ after_actor' = f.after_actor
        /\ failed_at' = f.failed_at
    /\ count' = Len(filtered_data')
    /\ avg_score' = AvgScore(filtered_data')
    /\ roi_data' = RoiData(filtered_data')
    /\ roi' = RoiMetric(roi_data')
    /\ chart' = IF filtered_data' = <<>> THEN "" ELSE plot
    /\ IF filtered_data' # <<>> /\ plot = "box"
       THEN \E exploded \in {Explode(filtered_data')} :
               \E top \in head(value_counts(exploded), TopN) :
                   /\ top_genres' = top
                   /\ genre_data' = KeepTop(exploded, top)
       ELSE /\ top_genres' = {}
            /\ genre_data' = <<>>
    /\ yearly_data' = IF filtered_data' # <<>> /\ plot = "trend"
                      THEN YearlyData(filtered_data') ELSE <<>>
    /\ csv' = IF filtered_data' = <<>> THEN <<>> ELSE to_csv(filtered_data')

\* One run of the script, lines 36-272.  first: the session has no widget
\* state yet and every widget returns its default.
Script(first, yr, genres_, actors_, query, plot) ==
    /\ file' = file
    /\ \E l \in {cache_data(cache, file)} :
        /\ cache' = l.cache
        /\ parses' = IF l.parsed /\ parses < MaxParses THEN parses + 1 ELSE parses
        /\ load_error' = l.error
        /\ df' = l.df
    /\ IF df' = <<>>
       THEN EndsEarly("stopped")
       ELSE IF KnownYears(df') = {}
       THEN EndsEarly("crashed")
       ELSE Render(df',
                   IF first THEN <<MinYear(df'), MaxYear(df')>> ELSE yr,
                   genres_, actors_, query, plot)

\* The process starts and the page is opened.
FirstRun ==
    /\ status = "init"
    /\ Script(TRUE, year_range, selected_genres, selected_actors, search_query, plot_type)

\* The user moves the year slider, which offers min_year..max_year.
ChangeYearRange ==
    /\ status = "rendered"
    /\ \E lo \in YearInputs, hi \in YearInputs :
        /\ MinYear(df) <= lo /\ lo <= hi /\ hi <= MaxYear(df)
        /\ <<lo, hi>> # year_range
        /\ Script(FALSE, <<lo, hi>>, selected_genres, selected_actors, search_query, plot_type)

\* The user adds one option to the genre selection or removes one from it.
ChangeGenres ==
    /\ status = "rendered"
    /\ \E g \in GenreOptions(df) \cap GenreInputs :
        Script(FALSE, year_range,
               IF g \in selected_genres THEN selected_genres \ {g} ELSE selected_genres \cup {g},
               selected_actors, search_query, plot_type)

\* The user adds one option to the actor selection or removes one from it.
ChangeActors ==
    /\ status = "rendered"
    /\ \E a \in ActorOptions(df) \cap ActorInputs :
        Script(FALSE, year_range, selected_genres,
               IF a \in selected_actors THEN selected_actors \ {a} ELSE selected_actors \cup {a},
               search_query, plot_type)

\* The user types into the search box.
ChangeSearch ==
    /\ status = "rendered"
    /\ \E q \in SearchInputs :
        /\ q # search_query
        /\ Script(FALSE, year_range, selected_genres, selected_actors, q, plot_type)

\* The user picks another chart.
ChangePlotType ==
    /\ status = "rendered"
    /\ \E p \in PlotTypes :
        /\ p # plot_type
        /\ Script(FALSE, year_range, selected_genres, selected_actors, search_query, p)

Next ==
    \/ FirstRun
    \/ ChangeYearRange
    \/ ChangeGenres
    \/ ChangeActors
    \/ ChangeSearch
    \/ ChangePlotType

Spec == Init /\ [][Next]_vars


(***************************************************************************)
(* Properties                                                              *)
(***************************************************************************)
Rendered == status = "rendered"

\* The widgets as the first run leaves them, the slider at its full range.
DefaultFilters ==
    /\ selected_genres = {All}
    /\ selected_actors = {"All"}
    /\ search_query = <<>>
    /\ year_range = <<MinYear(df), MaxYear(df)>>

\* The rows of t that satisfy Test, in their order.
Rows(t, Test(_)) == SelectSeq(t, Test)

HasYear(row) == row.title_year > 0
HasNoYear(row) == row.title_year = 0

\* g occurs in s as a substring, upper and lower case taken as equal.
HasSubstringCI(s, g) ==
    \E i \in 0..(Len(s) - Len(g)) : \A k \in 1..Len(g) : lower(s[i + k]) = lower(g[k])

HasParen(text) == \E i \in 1..Len(text) : text[i] = "("

\* C1 as claimed: with genres {All}, actors {All}, no search string and the
\* slider at its full range [min_year, max_year], the filter step returns
\* every row of the loaded table, the rows whose title_year is 0 included.
C1_FullRangeKeepsEveryRow ==
    (Rendered /\ DefaultFilters) => filtered_data = df

\* C1 as amended: with genres {All}, actors {All}, no search string and the
\* slider at its full range, the filter step returns exactly the rows whose
\* title_year is above 0, in their order, and no predicate fails; the rows
\* whose title_year is 0 are dropped.
C1_FullRangeKeepsRowsWithYear ==
    (Rendered /\ DefaultFilters) =>
        /\ failed_at = ""
        /\ filtered_data = Rows(df, HasYear)

C1_Witness ==
    /\ Rendered /\ DefaultFilters
    /\ \E i \in 1..Len(df) : HasNoYear(df[i])
    /\ 0 < Len(filtered_data) /\ Len(filtered_data) < Len(df)

\* C2: filtering the filtered table again with the same widget values gives
\* the same rows, whether or not the filter block took its except branch.
C2_FilterIdempotent ==
    Rendered =>
        FilterBlock(filtered_data, year_range, selected_genres, selected_actors,
                    search_query).filtered_data = filtered_data

C2_Witness ==
    /\ Rendered /\ failed_at = ""
    /\ GenreActive(selected_genres) /\ ActorActive(selected_actors) /\ TitleActive(search_query)
    /\ 0 < Len(filtered_data) /\ Len(filtered_data) < Len(df)

\* The table of the scenario: three rows with the years 1999, 0 and 2005.
ScenarioTable ==
    /\ Len(df) = 3
    /\ {df[i].title_year : i \in 1..3} = {1999, 0, 2005}

\* The scenario of C3: years {1999, 0, 2005}, range [1999, 2005], the other
\* predicates switched off: the row without year is left out, the other
\* two are kept.
C3_Scenario ==
    (ScenarioTable /\ DefaultFilters /\ year_range = <<1999, 2005>>) =>
        filtered_data = Rows(df, HasYear) /\ Len(filtered_data) = 2

\* C3 as claimed: a row whose title_year is 0 is in the filtered result if
\* and only if the selected year range includes 0.
C3_YearZeroRowIffRangeHasZero ==
    Rendered =>
        /\ \A i \in 1..Len(df) :
            HasNoYear(df[i]) =>
                (df[i] \in Range(filtered_data) <=> between(0, year_range[1], year_range[2]))
        /\ C3_Scenario

\* C3 as amended: the slider never offers a range that includes 0, and a row
\* whose title_year is 0 is in the filtered result if and only if a
\* predicate failed and the except branch put the whole table back; the
\* scenario holds as stated.
C3_YearZeroRowOnlyByFallback ==
    Rendered =>
        /\ ~between(0, year_range[1], year_range[2])
        /\ \A i \in 1..Len(df) :
            HasNoYear(df[i]) => (df[i] \in Range(filtered_data) <=> failed_at # "")
        /\ C3_Scenario

C3_Witness ==
    /\ Rendered /\ ScenarioTable /\ DefaultFilters
    /\ year_range = <<1999, 2005>>
    /\ Len(filtered_data) = 2

\* The rows of after_year whose genre string holds one of the selected
\* genre names as a substring, case ignored.
RowsWithSelectedGenre ==
    LET Test(row) == \E g \in selected_genres : HasSubstringCI(row.genres, g)
    IN  Rows(after_year, Test)

RowsWithSelectedActor ==
    LET Test(row) ==
            {row.actor_1_name, row.actor_2_name, row.actor_3_name} \cap selected_actors # {}
    IN  Rows(after_genre, Test)

\* C5 as claimed: the actor predicate is skipped exactly when the selection
\* is {All}; any other selection, the empty one and one holding All beside
\* other actors included, keeps the rows one of whose three actor fields
\* equals a selected name.
C5_ActorSkippedOnlyForAllAlone ==
    (Rendered /\ failed_at # "genre") =>
        after_actor = IF selected_actors = {"All"} THEN after_genre ELSE RowsWithSelectedActor

\* C5 as amended: the actor predicate is skipped exactly when All is among
\* the selected actors; any other selection, the empty one included, keeps
\* the rows one of whose three actor fields equals a selected name.
C5_ActorSkippedWheneverAllSelected ==
    (Rendered /\ failed_at # "genre") =>
        after_actor = IF "All" \in selected_actors THEN after_genre ELSE RowsWithSelectedActor

C5_Witness ==
    /\ Rendered /\ failed_at = ""
    /\ "All" \notin selected_actors /\ selected_actors # {}
    /\ 0 < Len(after_actor) /\ Len(after_actor) < Len(after_genre)

\* A predicate that is evaluated gets a pattern that does not compile.
GenreFails ==
    GenreActive(selected_genres) /\ \E g \in selected_genres : HasParen(g)
TitleFails == TitleActive(search_query) /\ HasParen(search_query)

\* C6: when a predicate fails, the failure is reported, filtered_data is
\* the whole loaded table, whatever the earlier predicates had left, and
\* the metrics, the chart and the export are those of the whole table.
C6_FailureFallsBackToWholeTable ==
    (Rendered /\ (GenreFails \/ TitleFails)) =>
        /\ failed_at = (IF GenreFails THEN "genre" ELSE "title")
        /\ filtered_data = df
        /\ count = Len(df)
        /\ avg_score = AvgScore(df)
        /\ roi = RoiMetric(RoiData(df))
        /\ chart = plot_type
        /\ plot_type = "trend" => yearly_data = YearlyData(df)
        /\ plot_type = "box" =>
            /\ top_genres \in head(value_counts(Explode(df)), TopN)
            /\ genre_data = KeepTop(Explode(df), top_genres)
        /\ csv = to_csv(df)

C6_Witness ==
    /\ Rendered /\ failed_at = "title"
    /\ GenreActive(selected_genres) /\ ActorActive(selected_actors)
    /\ Len(after_actor) < Len(after_year) /\ Len(after_year) < Len(df)
    /\ filtered_data = df

\* C7: the file is parsed at most once; once the cache is filled, no run
\* parses again or changes the cached table, and every run works on it.
C7_ParsedOnceTableNeverChanges ==
    [][/\ parses' <= 1
       /\ cache.filled =>
            /\ cache' = cache
            /\ parses' = parses
            /\ df' = cache.value]_vars

C7_Witness ==
    /\ Rendered /\ parses = 1
    /\ failed_at = "title" /\ plot_type = "box" /\ selected_actors = {}

\* C8: a filtered table whose rows all have budget 0 shows "no data" as
\* ROI; no row with a budget below 1000 is among the rows the median is
\* taken over, the ROI is what it is without those rows, and a ROI that
\* is shown is a finite number.
C8_RoiLeavesOutSmallBudgets ==
    Rendered =>
        LET Valid(row) == row.budget >= 1000
        IN  /\ (\A i \in 1..Len(filtered_data) : filtered_data[i].budget = 0) => roi = NoData
            /\ \A i \in 1..Len(roi_data) : roi_data[i].budget >= 1000
            /\ roi = RoiMetric(RoiData(Rows(filtered_data, Valid)))
            /\ ~roi.nodata => roi.value.den > 0

C8_Witness ==
    /\ Rendered /\ filtered_data # <<>>
    /\ \A i \in 1..Len(filtered_data) : filtered_data[i].budget = 0
    /\ roi = NoData

\* The genre tokens of the filtered table, one per row and genre.
Tokens == {e.genres : e \in Range(Explode(filtered_data))}

\* C9: the box chart keeps at most 10 genre names, none less frequent than
\* one it leaves out; every row it is given carries a kept name, and every
\* exploded row with a kept name is given to it.
C9_BoxChartKeepsTopTen ==
    (Rendered /\ chart = "box") =>
        /\ Cardinality(top_genres) <= 10
        /\ Cardinality({genre_data[i].genres : i \in 1..Len(genre_data)}) <= 10
        /\ \A i \in 1..Len(genre_data) : genre_data[i].genres \in top_genres
        /\ LET Kept(e) == e.genres \in top_genres
           IN  genre_data = Rows(Explode(filtered_data), Kept)
        /\ top_genres \subseteq Tokens
        /\ Cardinality(top_genres) = IF Cardinality(Tokens) < 10 THEN Cardinality(Tokens) ELSE 10

C9_Witness ==
    /\ Rendered /\ chart = "box"
    /\ Cardinality(Tokens) > 10
    /\ Len(genre_data) < Len(Explode(filtered_data))

\* The rows of the filtered table with title_year y.
RowsOfYear(y) ==
    LET Test(row) == row.title_year = y
    IN  Rows(filtered_data, Test)

\* m is the mean of the non-empty list xs.
IsMeanOf(m, xs) == m.den > 0 /\ m.num * Len(xs) = m.den * Sum(xs)

\* C10: the trend has one entry for every title_year above 0 in the
\* filtered table and none for year 0, in strictly ascending order of
\* year, each with the means of budget and gross over the rows of its
\* year; without any year above 0 it is empty.
C10_TrendPerKnownYear ==
    (Rendered /\ plot_type = "trend") =>
        /\ {yearly_data[k].title_year : k \in 1..Len(yearly_data)} =
               {filtered_data[i].title_year : i \in {j \in 1..Len(filtered_data) : HasYear(filtered_data[j])}}
        /\ \A k \in 1..(Len(yearly_data) - 1) :
               yearly_data[k].title_year < yearly_data[k + 1].title_year
        /\ \A k \in 1..Len(yearly_data) :
               LET group == RowsOfYear(yearly_data[k].title_year)
               IN  /\ IsMeanOf(yearly_data[k].budget, [i \in 1..Len(group) |-> group[i].budget])
                   /\ IsMeanOf(yearly_data[k].gross, [i \in 1..Len(group) |-> group[i].gross])

C10_Witness ==
    /\ Rendered /\ chart = "trend"
    /\ \E i \in 1..Len(filtered_data) : HasNoYear(filtered_data[i])
    /\ \E k \in 1..Len(yearly_data) :
        /\ Len(RowsOfYear(yearly_data[k].title_year)) = 2
        /\ yearly_data[k].budget = Frac(1500, 1)

====
